---- MODULE Spec2Model ----
(***************************************************************************)
(* A model of main.py of llm-wordlist: main, the scoring run               *)
(* (score_words_with_llm and score_words_batch_with_llm) and the filter    *)
(* pass (filter_scored_words).                                             *)
(*                                                                         *)
(* Text is a sequence of one-character strings.  A file is the text it     *)
(* holds.  A Python dict is a sequence of [key, value] records with        *)
(* distinct keys, in insertion order.                                      *)
(***************************************************************************)
EXTENDS Integers, Sequences, FiniteSets, TLC

(***************************************************************************)
(* Bounds of the model.                                                    *)
(***************************************************************************)
\* longest input word list
MaxWords == 3
\* largest --batch-size
MaxBatchSize == 2
\* most lines in one backend reply
MaxReplyLines == 2
\* most lines in a log that exists before the command runs
MaxLogLines == 3
\* longest reply text of the parser check
MaxTextLen == 5

(***************************************************************************)
(* Text: str.strip, str.split, int(), str(int).                            *)
(***************************************************************************)
\* the characters str.strip() removes (those of the model's alphabet)
Whitespace == {" ", "\t", "\n", "\r"}

DigitChars == <<"0", "1", "2", "3", "4", "5", "6", "7", "8", "9">>

IsDigit(c) == \E d \in 1..10 : DigitChars[d] = c

DigitValue(c) == (CHOOSE d \in 1..10 : DigitChars[d] = c) - 1

RECURSIVE LStrip(_)
LStrip(s) ==
    IF s /= <<>> /\ Head(s) \in Whitespace THEN LStrip(Tail(s)) ELSE s

RECURSIVE RStrip(_)
RStrip(s) ==
    IF s /= <<>> /\ s[Len(s)] \in Whitespace
    THEN RStrip(SubSeq(s, 1, Len(s) - 1))
    ELSE s

\* str.strip()
Strip(s) == RStrip(LStrip(s))

\* c in s
Contains(s, c) == \E k \in 1..Len(s) : s[k] = c

\* s.index(c), 1-based; s must contain c
IndexOf(s, c) == CHOOSE k \in 1..Len(s) : s[k] = c /\ \A j \in 1..(k - 1) : s[j] /= c

\* s.split(c, 1) for s that contains c: the text before and after the first c
SplitFirst(s, c) ==
    LET k == IndexOf(s, c)
    IN  <<SubSeq(s, 1, k - 1), SubSeq(s, k + 1, Len(s))>>

\* s.split(c): the pieces between occurrences of c (one piece for "")
RECURSIVE Split(_, _)
Split(s, c) ==
    IF Contains(s, c)
    THEN <<SplitFirst(s, c)[1]>> \o Split(SplitFirst(s, c)[2], c)
    ELSE <<s>>

\* the digits of int(): decimal digits, single underscores between them
RECURSIVE DigitsOk(_)
DigitsOk(s) ==
    IF s = <<>> THEN FALSE
    ELSE IF ~IsDigit(s[1]) THEN FALSE
    ELSE IF Len(s) = 1 THEN TRUE
    ELSE IF s[2] = "_" THEN DigitsOk(SubSeq(s, 3, Len(s)))
    ELSE DigitsOk(Tail(s))

RECURSIVE DigitsValue(_, _)
DigitsValue(s, acc) ==
    IF s = <<>> THEN acc
    ELSE IF s[1] = "_" THEN DigitsValue(Tail(s), acc)
    ELSE DigitsValue(Tail(s), 10 * acc + DigitValue(s[1]))

\* int(s): [ok |-> FALSE] stands for ValueError
ParseInt(s) ==
    LET t    == Strip(s)
        sign == IF t /= <<>> /\ t[1] \in {"+", "-"} THEN t[1] ELSE ""
        body == IF sign = "" THEN t ELSE Tail(t)
    IN  IF DigitsOk(body)
        THEN [ok |-> TRUE,
              value |-> IF sign = "-" THEN 0 - DigitsValue(body, 0)
                        ELSE DigitsValue(body, 0)]
        ELSE [ok |-> FALSE, value |-> 0]

RECURSIVE NatToStr(_)
NatToStr(n) ==
    IF n < 10 THEN <<DigitChars[n + 1]>>
    ELSE NatToStr(n \div 10) \o <<DigitChars[(n % 10) + 1]>>

\* str(n) of an int
IntToStr(n) == IF n < 0 THEN <<"-">> \o NatToStr(0 - n) ELSE NatToStr(n)

(***************************************************************************)
(* dict: insertion-ordered, keys distinct.                                 *)
(***************************************************************************)
EmptyDict == <<>>

HasKey(d, k) == \E j \in 1..Len(d) : d[j].key = k

DictGet(d, k) == d[CHOOSE j \in 1..Len(d) : d[j].key = k].value

DictKeys(d) == {d[j].key : j \in 1..Len(d)}

\* an assignment that adds a record whether or not the key is there
DictSetAppends(d, k, v) == Append(d, [key |-> k, value |-> v])

\* d[k] = v: an existing key keeps its place, a new key goes last
DictSet(d, k, v) ==
    IF HasKey(d, k)
    THEN [j \in 1..Len(d) |-> IF d[j].key = k THEN [key |-> k, value |-> v] ELSE d[j]]
    ELSE Append(d, [key |-> k, value |-> v])

\* d.update(e)
RECURSIVE DictUpdate(_, _)
DictUpdate(d, e) ==
    IF e = <<>> THEN d
    ELSE DictUpdate(DictSet(d, e[1].key, e[1].value), Tail(e))

(***************************************************************************)
(* Response parser: score_words_batch_with_llm, lines 99-136.              *)
(***************************************************************************)
\* the requests.Response of one backend call: its status and JSON shape,
\* and the text of choices[0].message.content when there is one
Response(kind, content) == [kind |-> kind, content |-> content]

NoResponse == Response("none", <<>>)

\* response.status_code == 200 (line 99)
StatusOk(r) == r.kind /= "http_error"

\* response.json() (line 100) raises on a body that is no JSON
JsonRaises(r) == r.kind = "not_json"

\* the condition of line 108, left to right: "true", "false", or "raise"
\* when an `in` test meets None (TypeError)
Line108(r) ==
    IF r.kind = "no_choices" THEN "false"
    ELSE IF r.kind \in {"choices_null", "choices_empty"} THEN "false"
    ELSE IF r.kind = "choice_null" THEN "raise"
    ELSE IF r.kind = "choice_no_message" THEN "false"
    ELSE IF r.kind = "message_null" THEN "raise"
    ELSE IF r.kind = "message_no_content" THEN "false"
    ELSE "true"

\* content.strip() (line 118) raises AttributeError on None
ContentRaises(r) == r.kind = "content_null"

\* a parser that keeps the text before the ':' as it stands
ParseLineKeyUnstripped(scores, line) ==
    IF Contains(line, ":")
    THEN LET parts == SplitFirst(line, ":")
             score == ParseInt(parts[2])
         IN  IF score.ok
             THEN DictSet(scores, parts[1], score.value)
             ELSE scores
    ELSE scores

\* one line of the reply (lines 119-126) put into scores
ParseLine(scores, line) ==
    IF Contains(line, ":")
    THEN LET parts == SplitFirst(line, ":")
             score == ParseInt(parts[2])
         IN  IF score.ok
             THEN DictSet(scores, Strip(parts[1]), score.value)
             ELSE scores
    ELSE scores

RECURSIVE ParseLines(_, _)
ParseLines(scores, lines) ==
    IF lines = <<>> THEN scores
    ELSE ParseLines(ParseLine(scores, Head(lines)), Tail(lines))

\* lines 117-128: the word -> score dict of a reply text
ParseContent(content) == ParseLines(EmptyDict, Split(Strip(content), "\n"))

\* a batch call that prints the status of a failed call and returns {}
BatchOutcomeStatusSkipped(r) ==
    IF ~StatusOk(r)
    THEN [do |-> "return", scores |-> EmptyDict, printed |-> "error_from_api"]
    ELSE IF JsonRaises(r) \/ Line108(r) = "raise" \/ ContentRaises(r)
    THEN [do |-> "exit", scores |-> EmptyDict, printed |-> "error_calling_api"]
    ELSE IF Line108(r) = "false"
    THEN [do |-> "return", scores |-> EmptyDict, printed |-> "error_unexpected_format"]
    ELSE [do |-> "return", scores |-> ParseContent(r.content), printed |-> ""]

\* what score_words_batch_with_llm does with a response: "exit" is
\* sys.exit(1), "return" gives the dict; printed is the console message
BatchOutcome(r) ==
    IF ~StatusOk(r)
    THEN [do |-> "exit", scores |-> EmptyDict, printed |-> "error_from_api"]
    ELSE IF JsonRaises(r) \/ Line108(r) = "raise"
    THEN [do |-> "exit", scores |-> EmptyDict, printed |-> "error_calling_api"]
    ELSE IF Line108(r) = "false"
    THEN [do |-> "return", scores |-> EmptyDict, printed |-> "error_unexpected_format"]
    ELSE IF ContentRaises(r)
    THEN [do |-> "exit", scores |-> EmptyDict, printed |-> "error_calling_api"]
    ELSE [do |-> "return", scores |-> ParseContent(r.content), printed |-> ""]

(***************************************************************************)
(* Files.                                                                  *)
(***************************************************************************)
\* the value of a path at which no file exists
NoFile == <<"ENOENT">>

\* a record written with a blank for the ':'
FormatRecordBlank(rec) == rec.key \o <<" ">> \o IntToStr(rec.value) \o <<"\n">>

\* f"{word}:{score}\n" (line 180)
FormatRecord(rec) == rec.key \o <<":">> \o IntToStr(rec.value) \o <<"\n">>

\* f"{word}\n" (lines 186, 291)
FormatWord(word) == word \o <<"\n">>

\* for line in file: the lines of a text file, each without its "\n"
FileLines(text) ==
    LET pieces == Split(text, "\n")
    IN  IF pieces[Len(pieces)] = <<>>
        THEN SubSeq(pieces, 1, Len(pieces) - 1)
        ELSE pieces

\* a loader that keeps the larger score of a word seen again
LoadLineMaxWins(all_scores, raw) ==
    LET line == Strip(raw)
    IN  IF line /= <<>> /\ Contains(line, ":")
        THEN LET parts == SplitFirst(line, ":")
                 score == ParseInt(parts[2])
                 word  == Strip(parts[1])
             IN  IF score.ok /\ ~(HasKey(all_scores.scores, word)
                                    /\ DictGet(all_scores.scores, word) >= score.value)
                 THEN [scores |-> DictSet(all_scores.scores, word, score.value),
                       printed |-> all_scores.printed]
                 ELSE all_scores
        ELSE all_scores

\* a loader that records 0 for a score that is no integer
LoadLineBadScoreAsZero(all_scores, raw) ==
    LET line == Strip(raw)
    IN  IF line /= <<>> /\ Contains(line, ":")
        THEN LET parts == SplitFirst(line, ":")
                 score == ParseInt(parts[2])
             IN  [scores |-> DictSet(all_scores.scores, Strip(parts[1]), score.value),
                  printed |-> all_scores.printed]
        ELSE all_scores

\* one line of the log (lines 273-281) put into all_scores
LoadLine(all_scores, raw) ==
    LET line == Strip(raw)
    IN  IF line /= <<>> /\ Contains(line, ":")
        THEN LET parts == SplitFirst(line, ":")
                 score == ParseInt(parts[2])
             IN  IF score.ok
                 THEN [scores |-> DictSet(all_scores.scores, Strip(parts[1]),
                                          score.value),
                       printed |-> all_scores.printed]
                 ELSE all_scores
        ELSE all_scores

RECURSIVE LoadLines(_, _)
LoadLines(all_scores, lines) ==
    IF lines = <<>> THEN all_scores
    ELSE LoadLines(LoadLine(all_scores, Head(lines)), Tail(lines))

\* lines 269-281: the dict the filter pass reads from a log, and what the
\* loop prints meanwhile
LoadLog(text) == LoadLines([scores |-> EmptyDict, printed |-> <<>>], FileLines(text))

(***************************************************************************)
(* sorted(): strings in code point order.                                  *)
(***************************************************************************)
\* the Turkish letters outside ASCII, each one character, named by its code
\* point: c with cedilla, o with diaeresis, u with diaeresis, g with breve,
\* dotless i, s with cedilla
c_cedilla == "U+00E7"
o_diaeresis == "U+00F6"
u_diaeresis == "U+00FC"
g_breve == "U+011F"
dotless_i == "U+0131"
s_cedilla == "U+015F"

\* the characters of the model in ascending code point order
CodePointOrder ==
    <<"\t", "\n", "\r", " ", "+", "-",
      "0", "1", "2", "3", "4", "5", "6", "7", "8", "9", ":", "_",
      "a", "b", "c", "d", "e", "f", "g", "h", "i", "j", "k", "l", "m",
      "n", "o", "p", "q", "r", "s", "t", "u", "v", "w", "x", "y", "z",
      c_cedilla, o_diaeresis, u_diaeresis, g_breve, dotless_i, s_cedilla>>

Ord(c) == CHOOSE k \in 1..Len(CodePointOrder) : CodePointOrder[k] = c

\* a < b for str
RECURSIVE StrLess(_, _)
StrLess(a, b) ==
    IF b = <<>> THEN FALSE
    ELSE IF a = <<>> THEN TRUE
    ELSE IF Head(a) = Head(b) THEN StrLess(Tail(a), Tail(b))
    ELSE Ord(Head(a)) < Ord(Head(b))

\* sorted(S) for a set of distinct strings
RECURSIVE Sorted(_)
Sorted(S) ==
    IF S = {} THEN <<>>
    ELSE LET least == CHOOSE a \in S : \A b \in S \ {a} : StrLess(a, b)
         IN  <<least>> \o Sorted(S \ {least})

\* a filter that keeps only the scores above the threshold
RECURSIVE FilterDictStrict(_, _)
FilterDictStrict(scores, threshold) ==
    IF scores = <<>> THEN <<>>
    ELSE IF Head(scores).value > threshold
         THEN <<Head(scores)>> \o FilterDictStrict(Tail(scores), threshold)
         ELSE FilterDictStrict(Tail(scores), threshold)

\* {word: score for ... if score >= min_score} (lines 193, 286)
RECURSIVE FilterDict(_, _)
FilterDict(scores, threshold) ==
    IF scores = <<>> THEN <<>>
    ELSE IF Head(scores).value >= threshold
         THEN <<Head(scores)>> \o FilterDict(Tail(scores), threshold)
         ELSE FilterDict(Tail(scores), threshold)

RECURSIVE ConcatAll(_)
ConcatAll(texts) ==
    IF texts = <<>> THEN <<>> ELSE Head(texts) \o ConcatAll(Tail(texts))

\* a filter pass that writes the words in the order of the dict
FilterOutputUnsorted(filtered_words) ==
    ConcatAll([k \in 1..Len(filtered_words) |-> FormatWord(filtered_words[k].key)])

\* lines 289-291: the text the filter pass writes
FilterOutput(filtered_words) ==
    LET order == Sorted(DictKeys(filtered_words))
    IN  ConcatAll([k \in 1..Len(order) |-> FormatWord(order[k])])

(***************************************************************************)
(* The inputs of the model.                                                *)
(***************************************************************************)
foo == <<"f", "o", "o">>
bar == <<"b", "a", "r">>

Line_foo80  == foo \o <<":", "8", "0">>
Line_foo95  == foo \o <<":", "9", "5">>
Line_bar90  == <<" ">> \o bar \o <<" ", ":", " ", "9", "0">>
Line_bad    == <<"b", "a", "d", " ", "l", "i", "n", "e">>
Line_barNaN == bar \o <<":", "n", "o", "t", "a", "n", "u", "m", "b", "e", "r">>
Line_blank  == <<>>

\* the k-th word of the input file
InputWord(k) ==
    IF k = 1 THEN foo ELSE IF k = 2 THEN bar ELSE <<"w">> \o NatToStr(k)

\* the word lists read_words_from_file may return
WordLists == {[k \in 1..n |-> InputWord(k)] : n \in 0..MaxWords}

\* --min-score
MinScores == {90, 95}

\* all sequences of at most n elements of S
SeqsUpTo(S, n) == UNION {[1..m -> S] : m \in 0..n}

\* "\n".join(lines)
RECURSIVE JoinLines(_)
JoinLines(lines) ==
    IF lines = <<>> THEN <<>>
    ELSE IF Len(lines) = 1 THEN lines[1]
    ELSE lines[1] \o <<"\n">> \o JoinLines(Tail(lines))

\* the lines a backend reply is made of
ReplyLines == {Line_foo80, Line_foo95, Line_bar90, Line_bad}

\* the texts the backend may put in choices[0].message.content
ReplyTexts == {JoinLines(ls) : ls \in SeqsUpTo(ReplyLines, MaxReplyLines)}

\* the JSON shapes of a reply that carries no content text
EnvelopeKinds ==
    {"http_error", "not_json", "no_choices", "choices_null", "choices_empty",
     "choice_null", "choice_no_message", "message_null", "message_no_content",
     "content_null"}

\* every response requests.post may return
Responses ==
    {Response(k, <<>>) : k \in EnvelopeKinds}
        \cup {Response("content", t) : t \in ReplyTexts}

\* the lines a log on disk is made of
LogLines == {Line_foo80, Line_foo95, Line_bar90, Line_bad, Line_barNaN, Line_blank}

\* the text of a file holding the given lines
FileOf(lines) == ConcatAll([k \in 1..Len(lines) |-> lines[k] \o <<"\n">>])

\* the words cay, c-cedilla ay, i-dotless s-cedilla i-dotless k, isim
cay  == <<"c", "a", "y">>
cay_cedilla == <<c_cedilla, "a", "y">>
isik_dotless == <<dotless_i, s_cedilla, dotless_i, "k">>
isim == <<"i", "s", "i", "m">>

\* a log of four words in Turkish, with the scores 89, 90, 94, 95
TurkishLines ==
    <<cay \o <<":", "8", "9">>, cay_cedilla \o <<":", "9", "0">>,
      isim \o <<":", "9", "4">>, isik_dotless \o <<":", "9", "5">>>>

\* the four lines in every order
TurkishLogs ==
    {FileOf([k \in 1..4 |-> TurkishLines[p[k]]]) :
        p \in {q \in [1..4 -> 1..4] : \A a, b \in 1..4 : a /= b => q[a] /= q[b]}}

\* a log with two malformed lines between two records of one word
ExampleLog == FileOf(<<Line_foo80, Line_bad, Line_barNaN, Line_foo95>>)

\* the logs the filter command may find
Logs ==
    {FileOf(ls) : ls \in SeqsUpTo(LogLines, MaxLogLines)}
        \cup TurkishLogs \cup {ExampleLog} \cup {NoFile}

\* --min-score of the filter command
FilterMinScores == MinScores \cup {89}

\* --min-score of the score command: the default
ScoreMinScores == {90}

\* what main needs before it scores: OPENROUTER_API_KEY, the input word
\* file, the prompt file
Needed == {"api_key", "input_file", "prompt_file"}

\* what of it is there
Configs == SUBSET Needed

\* the characters of the reply texts of the parser check
ParserAlphabet == {"a", ":", "1", "-", " ", "\n"}

\* every reply text of at most MaxTextLen characters
ParserTexts == SeqsUpTo(ParserAlphabet, MaxTextLen)

\* what an earlier scoring run left at the two output paths
OldLog == FileOf(<<Line_foo95>>)
OldFiltered == FormatWord(foo)

\* the two output paths before the command runs: nothing there, or the files
\* of an earlier run
OldFiles == {<<NoFile, NoFile>>, <<OldLog, OldFiltered>>}

(***************************************************************************)
(* State.                                                                  *)
(***************************************************************************)
VARIABLES
    command,        \* args.command: "score" or "filter"
    words,          \* the word list of the scoring run
    batch_size,     \* --batch-size
    min_score,      \* --min-score
    pc,             \* the statement the process is at
    exit_status,    \* "running", "exit0", "exit1" or "interrupted"
    i,              \* the loop variable of line 167, as the next start index
    batch,          \* words[i:i+batch_size]
    response,       \* the response of the backend call under way
    batch_scores,   \* the dict the last batch call returned
    all_scores,     \* the dict all_scores (of the run, or of the filter pass)
    all_file,       \* the all-scores log on disk
    filtered_file,  \* the filtered-words file on disk
    wbuf,           \* text written to the open file and not yet flushed
    j,              \* how many items of batch_scores the write loop has done
    console,        \* what has been printed
    calls,          \* history: the batch of every backend call, in order
    parsed,         \* history: the dict every batch call returned, in order
    config,         \* what main finds of: the API key, the input file, the prompt file
    prev_output     \* history: what the filter pass before this one wrote

vars ==
    <<command, words, batch_size, min_score, pc, exit_status, i, batch, response,
      batch_scores, all_scores, all_file, filtered_file, wbuf, j, console, calls,
      parsed, config, prev_output>>

\* what the command line and the environment give: no step changes it
args == <<command, words, batch_size, min_score, config>>

Msg(text, n) == [msg |-> text, n |-> n]

Running == exit_status = "running"

\* prev_output before any filter pass has run
NoRun == <<"NORUN">>

InitCommon ==
    /\ exit_status = "running"
    /\ i = 0
    /\ batch = <<>>
    /\ response = NoResponse
    /\ batch_scores = EmptyDict
    /\ all_scores = EmptyDict
    /\ wbuf = <<>>
    /\ j = 0
    /\ console = <<>>
    /\ calls = <<>>
    /\ parsed = <<>>
    /\ prev_output = NoRun

\* python main.py score ...
ScoreInit ==
    /\ command = "score"
    /\ pc = "main"
    /\ config \in Configs
    /\ words \in (IF "input_file" \in config THEN WordLists ELSE {<<>>})
    /\ batch_size \in 1..MaxBatchSize
    /\ min_score \in ScoreMinScores
    /\ \E old \in OldFiles : all_file = old[1] /\ filtered_file = old[2]
    /\ InitCommon

\* python main.py filter ...
FilterInit ==
    /\ command = "filter"
    /\ pc = "start"
    /\ config = Needed
    /\ words = <<>>
    /\ batch_size = 1
    /\ min_score \in FilterMinScores
    /\ all_file \in Logs
    /\ filtered_file \in {NoFile, OldFiltered}
    /\ InitCommon

Init == ScoreInit \/ FilterInit

(***************************************************************************)
(* main (lines 301-338): the score command up to the scoring run.          *)
(***************************************************************************)
\* a main that opens the two output files before it looks for what it needs
MainOpensFirst ==
    /\ Running /\ command = "score" /\ pc = "main"
    /\ all_file' = <<>>
    /\ filtered_file' = <<>>
    /\ IF config /= Needed
       THEN /\ console' = Append(console, Msg("error_configuration", 0))
            /\ exit_status' = "exit1"
            /\ UNCHANGED pc
       ELSE /\ console' = Append(console, Msg("scoring_words", batch_size))
            /\ pc' = "start"
            /\ UNCHANGED exit_status
    /\ UNCHANGED <<args, prev_output, i, batch, response, batch_scores, all_scores,
                   wbuf, j, calls, parsed>>

\* lines 309-338: the API key (315-318), the word file (325, 17-27) and the
\* prompt file (330, 30-40), in this order; the first that is missing ends
\* the process with status 1, otherwise the scoring run begins
Main ==
    /\ Running /\ command = "score" /\ pc = "main"
    /\ IF "api_key" \notin config
       THEN /\ console' = console \o <<Msg("error_api_key_not_found", 0),
                                       Msg("please_create_env_file", 0)>>
            /\ exit_status' = "exit1"
            /\ UNCHANGED pc
       ELSE IF "input_file" \notin config
       THEN /\ console' = console \o <<Msg("reading_words", 0),
                                       Msg("error_file_not_found", 0)>>
            /\ exit_status' = "exit1"
            /\ UNCHANGED pc
       ELSE IF "prompt_file" \notin config
       THEN /\ console' = console \o <<Msg("reading_words", 0),
                                       Msg("read_words", Len(words)),
                                       Msg("reading_prompt", 0),
                                       Msg("error_prompt_file_not_found", 0)>>
            /\ exit_status' = "exit1"
            /\ UNCHANGED pc
       ELSE /\ console' = console \o <<Msg("reading_words", 0),
                                       Msg("read_words", Len(words)),
                                       Msg("reading_prompt", 0),
                                       Msg("scoring_words", batch_size)>>
            /\ pc' = "start"
            /\ UNCHANGED exit_status
    /\ UNCHANGED <<args, prev_output, i, batch, response, batch_scores, all_scores,
                   all_file, filtered_file, wbuf, j, calls, parsed>>

(***************************************************************************)
(* score_words_with_llm (lines 143-188) and the summary of main.           *)
(***************************************************************************)
\* words[i:i+batch_size], i counted from 0
Slice(ws, from, size) ==
    SubSeq(ws, from + 1, IF from + size < Len(ws) THEN from + size ELSE Len(ws))

\* a loop that steps by one less than the batch size (by one at least)
NextIndexShort(index, step) == index + (IF step > 1 THEN step - 1 ELSE 1)

\* the i of range(0, len(words), batch_size) after the one at hand
NextIndex(index, step) == index + step

\* a merge that keeps the larger score of a word seen again
RECURSIVE MergeMaxWins(_, _)
MergeMaxWins(store, records) ==
    IF records = <<>> THEN store
    ELSE LET k == records[1].key
             v == records[1].value
         IN  MergeMaxWins(
                 IF HasKey(store, k) /\ DictGet(store, k) >= v
                 THEN store ELSE DictSet(store, k, v),
                 Tail(records))

\* a merge that leaves the score of a word already in the store alone
RECURSIVE MergeKeepFirst(_, _)
MergeKeepFirst(store, records) ==
    IF records = <<>> THEN store
    ELSE MergeKeepFirst(
             IF HasKey(store, records[1].key)
             THEN store ELSE DictSet(store, records[1].key, records[1].value),
             Tail(records))

\* a merge that puts the batch in the place of the store
MergeReplaces(store, records) == records

\* all_scores.update(batch_scores) (line 175)
Merge(store, records) == DictUpdate(store, records)

\* an empty word list sent to the backend as one empty batch
ReturnEmptyAfterCall ==
    /\ Running /\ command = "score" /\ pc = "start"
    /\ words = <<>>
    /\ \E r \in Responses : response' = r
    /\ calls' = Append(calls, <<>>)
    /\ pc' = "parse"
    /\ UNCHANGED <<args, prev_output, exit_status, i, batch, batch_scores,
                   all_scores, all_file, filtered_file, wbuf, j, console, parsed>>

\* lines 154-155: an empty word list returns {} at once
ReturnEmpty ==
    /\ Running /\ command = "score" /\ pc = "start"
    /\ words = <<>>
    /\ all_scores' = EmptyDict
    /\ pc' = "summary"
    /\ UNCHANGED <<args, prev_output, exit_status, i, batch, response, batch_scores,
                   all_file, filtered_file, wbuf, j, console, calls, parsed>>

\* the log opened for append at the start of the run
InitAllFileKeeps ==
    /\ Running /\ command = "score" /\ pc = "start"
    /\ words /= <<>>
    /\ all_file' = IF all_file = NoFile THEN <<>> ELSE all_file
    /\ pc' = "init_filtered"
    /\ UNCHANGED <<args, prev_output, exit_status, i, batch, response, batch_scores,
                   all_scores, filtered_file, wbuf, j, console, calls, parsed>>

\* lines 158-159: open(all_scores_file, 'w') empties the log
InitAllFile ==
    /\ Running /\ command = "score" /\ pc = "start"
    /\ words /= <<>>
    /\ all_file' = <<>>
    /\ pc' = "init_filtered"
    /\ UNCHANGED <<args, prev_output, exit_status, i, batch, response, batch_scores,
                   all_scores, filtered_file, wbuf, j, console, calls, parsed>>

\* lines 161-164: open(filtered_words_file, 'w'); all_scores = {}
InitFilteredFile ==
    /\ Running /\ pc = "init_filtered"
    /\ filtered_file' = <<>>
    /\ all_scores' = EmptyDict
    /\ i' = 0
    /\ pc' = "for"
    /\ UNCHANGED <<args, prev_output, exit_status, batch, response, batch_scores,
                   all_file, wbuf, j, console, calls, parsed>>

\* lines 167-169: the next batch, or the end of the loop (line 188)
ForNext ==
    /\ Running /\ pc = "for"
    /\ IF i < Len(words)
       THEN /\ batch' = Slice(words, i, batch_size)
            /\ console' = Append(console,
                                 Msg("processing_batch", (i \div batch_size) + 1))
            /\ pc' = "post"
       ELSE /\ pc' = "summary"
            /\ UNCHANGED <<batch, console>>
    /\ UNCHANGED <<args, prev_output, exit_status, i, response, batch_scores,
                   all_scores, all_file, filtered_file, wbuf, j, calls, parsed>>

\* lines 48-49, 97: an empty batch returns {} without a call; otherwise
\* requests.post returns a response
Post ==
    /\ Running /\ pc = "post"
    /\ IF batch = <<>>
       THEN /\ batch_scores' = EmptyDict
            /\ parsed' = Append(parsed, EmptyDict)
            /\ pc' = "update"
            /\ UNCHANGED <<response, calls>>
       ELSE /\ \E r \in Responses : response' = r
            /\ calls' = Append(calls, batch)
            /\ pc' = "parse"
            /\ UNCHANGED <<batch_scores, parsed>>
    /\ UNCHANGED <<args, prev_output, exit_status, i, batch, all_scores, all_file,
                   filtered_file, wbuf, j, console>>

\* lines 97, 138-140: requests.post raises; the run exits with status 1
PostRaises ==
    /\ Running /\ pc = "post"
    /\ batch /= <<>>
    /\ calls' = Append(calls, batch)
    /\ console' = Append(console, Msg("error_calling_api", 0))
    /\ exit_status' = "exit1"
    /\ UNCHANGED <<args, prev_output, pc, i, batch, response, batch_scores,
                   all_scores, all_file, filtered_file, wbuf, j, parsed>>

\* lines 99-140: the response becomes the dict of the batch, or the run exits
ParseResponse ==
    /\ Running /\ pc = "parse"
    /\ LET out == BatchOutcome(response)
       IN  /\ console' = IF out.printed = "" THEN console
                         ELSE Append(console, Msg(out.printed, 0))
           /\ IF out.do = "exit"
              THEN /\ exit_status' = "exit1"
                   /\ UNCHANGED <<pc, response, batch_scores, parsed>>
              ELSE /\ batch_scores' = out.scores
                   /\ parsed' = Append(parsed, out.scores)
                   /\ response' = NoResponse
                   /\ pc' = "update"
                   /\ UNCHANGED exit_status
    /\ UNCHANGED <<args, prev_output, i, batch, all_scores, all_file, filtered_file,
                   wbuf, j, calls>>

\* lines 175, 178: merge the batch, open the log for append
Update ==
    /\ Running /\ pc = "update"
    /\ all_scores' = Merge(all_scores, batch_scores)
    /\ wbuf' = <<>>
    /\ j' = 0
    /\ pc' = "append_all"
    /\ UNCHANGED <<args, prev_output, exit_status, i, batch, response, batch_scores,
                   all_file, filtered_file, console, calls, parsed>>

\* a write that goes to the disk at once
AppendAllWriteUnbuffered ==
    /\ Running /\ pc = "append_all"
    /\ j < Len(batch_scores)
    /\ all_file' = all_file \o FormatRecord(batch_scores[j + 1])
    /\ j' = j + 1
    /\ UNCHANGED <<args, prev_output, pc, exit_status, i, batch, response,
                   batch_scores, all_scores, wbuf, filtered_file, console, calls,
                   parsed>>

\* lines 179-180: write one record of the batch
AppendAllWrite ==
    /\ Running /\ pc = "append_all"
    /\ j < Len(batch_scores)
    /\ wbuf' = wbuf \o FormatRecord(batch_scores[j + 1])
    /\ j' = j + 1
    /\ UNCHANGED <<args, prev_output, pc, exit_status, i, batch, response,
                   batch_scores, all_scores, all_file, filtered_file, console,
                   calls, parsed>>

\* the log opened with 'w' for every batch
AppendAllCloseOverwrites ==
    /\ Running /\ pc = "append_all"
    /\ j = Len(batch_scores)
    /\ all_file' = wbuf
    /\ wbuf' = <<>>
    /\ j' = 0
    /\ pc' = "append_filtered"
    /\ UNCHANGED <<args, prev_output, exit_status, i, batch, response, batch_scores,
                   all_scores, filtered_file, console, calls, parsed>>

\* lines 178, 183: the with block closes the log, what was written reaches
\* the disk, and the filtered file is opened for append
AppendAllClose ==
    /\ Running /\ pc = "append_all"
    /\ j = Len(batch_scores)
    /\ all_file' = all_file \o wbuf
    /\ wbuf' = <<>>
    /\ j' = 0
    /\ pc' = "append_filtered"
    /\ UNCHANGED <<args, prev_output, exit_status, i, batch, response, batch_scores,
                   all_scores, filtered_file, console, calls, parsed>>

\* a write loop that writes every word of the batch
AppendFilteredWriteAny ==
    /\ Running /\ pc = "append_filtered"
    /\ j < Len(batch_scores)
    /\ wbuf' = wbuf \o FormatWord(batch_scores[j + 1].key)
    /\ j' = j + 1
    /\ UNCHANGED <<args, prev_output, pc, exit_status, i, batch, response,
                   batch_scores, all_scores, all_file, filtered_file, console,
                   calls, parsed>>

\* lines 184-186: write one word of the batch if its score reaches min_score
AppendFilteredWrite ==
    /\ Running /\ pc = "append_filtered"
    /\ j < Len(batch_scores)
    /\ wbuf' = IF batch_scores[j + 1].value >= min_score
               THEN wbuf \o FormatWord(batch_scores[j + 1].key)
               ELSE wbuf
    /\ j' = j + 1
    /\ UNCHANGED <<args, prev_output, pc, exit_status, i, batch, response,
                   batch_scores, all_scores, all_file, filtered_file, console,
                   calls, parsed>>

\* lines 183, 167: the with block closes the filtered file; next iteration
AppendFilteredClose ==
    /\ Running /\ pc = "append_filtered"
    /\ j = Len(batch_scores)
    /\ filtered_file' = filtered_file \o wbuf
    /\ wbuf' = <<>>
    /\ j' = 0
    /\ i' = NextIndex(i, batch_size)
    /\ pc' = "for"
    /\ UNCHANGED <<args, prev_output, exit_status, batch, response, batch_scores,
                   all_scores, all_file, console, calls, parsed>>

\* lines 353-354: main prints the summary and the process ends
Summary ==
    /\ Running /\ pc = "summary"
    /\ console' = Append(console, Msg("processed_words", Len(all_scores)))
    /\ exit_status' = "exit0"
    /\ pc' = "done"
    /\ UNCHANGED <<args, prev_output, i, batch, response, batch_scores, all_scores,
                   all_file, filtered_file, wbuf, j, calls, parsed>>

\* the scoring run is interrupted where it stands.  Inside a write loop the
\* text written so far reaches the disk (KeyboardInterrupt: the with block
\* closes the file) or is lost with the buffer (the process is killed)
Interrupt ==
    /\ Running /\ command = "score" /\ pc /= "done"
    /\ exit_status' = "interrupted"
    /\ wbuf' = <<>>
    /\ \E flushed \in BOOLEAN :
        /\ all_file' = IF pc = "append_all" /\ flushed
                       THEN all_file \o wbuf ELSE all_file
        /\ filtered_file' = IF pc = "append_filtered" /\ flushed
                            THEN filtered_file \o wbuf ELSE filtered_file
    /\ UNCHANGED <<args, prev_output, pc, i, batch, response, batch_scores,
                   all_scores, j, console, calls, parsed>>

(***************************************************************************)
(* filter_scored_words (lines 257-298).                                    *)
(***************************************************************************)
\* open(input_file, 'r') (line 271) raises: there is no file to read
OpenFails(file) == file = NoFile

\* lines 266-283: read the log; a missing log is caught at line 296
FilterRead ==
    /\ Running /\ command = "filter" /\ pc = "start"
    /\ IF OpenFails(all_file)
       THEN /\ console' = console \o <<Msg("reading_scored_words", 0),
                                       Msg("error_filtering_words", 0)>>
            /\ exit_status' = "exit1"
            /\ UNCHANGED <<pc, all_scores>>
       ELSE LET loaded == LoadLog(all_file)
            IN  /\ all_scores' = loaded.scores
                /\ console' = console \o <<Msg("reading_scored_words", 0)>>
                                \o loaded.printed
                                \o <<Msg("read_scored_words", Len(loaded.scores))>>
                /\ pc' = "filter_write"
                /\ UNCHANGED exit_status
    /\ UNCHANGED <<args, prev_output, i, batch, response, batch_scores, all_file,
                   filtered_file, wbuf, j, calls, parsed>>

\* a filter pass that opens its output for append
FilterWriteAppends ==
    /\ Running /\ pc = "filter_write"
    /\ LET filtered_words == FilterDict(all_scores, min_score)
       IN  /\ filtered_file' = (IF filtered_file = NoFile THEN <<>> ELSE filtered_file)
                                  \o FilterOutput(filtered_words)
           /\ console' = console \o <<Msg("filtered_words", Len(filtered_words)),
                                      Msg("filtered_words_saved", 0)>>
    /\ exit_status' = "exit0"
    /\ pc' = "done"
    /\ UNCHANGED <<args, prev_output, i, batch, response, batch_scores, all_scores,
                   all_file, wbuf, j, calls, parsed>>

\* lines 285-294: write the words that reach min_score, sorted
FilterWrite ==
    /\ Running /\ pc = "filter_write"
    /\ LET filtered_words == FilterDict(all_scores, min_score)
       IN  /\ filtered_file' = FilterOutput(filtered_words)
           /\ console' = console \o <<Msg("filtered_words", Len(filtered_words)),
                                      Msg("filtered_words_saved", 0)>>
    /\ exit_status' = "exit0"
    /\ pc' = "done"
    /\ UNCHANGED <<args, prev_output, i, batch, response, batch_scores, all_scores,
                   all_file, wbuf, j, calls, parsed>>

\* python main.py filter ... once more, with the same arguments, on the files
\* the first pass left (lines 306-308)
FilterAgain ==
    /\ command = "filter" /\ pc = "done" /\ exit_status = "exit0"
    /\ prev_output = NoRun
    /\ prev_output' = filtered_file
    /\ pc' = "start"
    /\ exit_status' = "running"
    /\ all_scores' = EmptyDict
    /\ console' = <<>>
    /\ UNCHANGED <<args, i, batch, response, batch_scores, all_file, filtered_file,
                   wbuf, j, calls, parsed>>

Next ==
    \/ Main
    \/ ReturnEmpty
    \/ InitAllFile
    \/ InitFilteredFile
    \/ ForNext
    \/ Post
    \/ PostRaises
    \/ ParseResponse
    \/ Update
    \/ AppendAllWrite
    \/ AppendAllClose
    \/ AppendFilteredWrite
    \/ AppendFilteredClose
    \/ Summary
    \/ Interrupt
    \/ FilterRead
    \/ FilterWrite
    \/ FilterAgain

Spec == Init /\ [][Next]_vars

(***************************************************************************)
(* The parser alone: a run stands at the reply to its first call, and the  *)
(* reply text is any text of at most MaxTextLen characters.                *)
(***************************************************************************)
ParserInit ==
    /\ command = "score"
    /\ config = Needed
    /\ words = <<foo>>
    /\ batch_size = 1
    /\ min_score = 90
    /\ pc = "parse"
    /\ exit_status = "running"
    /\ i = 0
    /\ batch = <<foo>>
    /\ response \in {Response("content", t) : t \in ParserTexts}
    /\ batch_scores = EmptyDict
    /\ all_scores = EmptyDict
    /\ all_file = <<>>
    /\ filtered_file = <<>>
    /\ wbuf = <<>>
    /\ j = 0
    /\ console = <<Msg("reading_words", 0), Msg("read_words", 1),
                   Msg("reading_prompt", 0), Msg("scoring_words", 1),
                   Msg("processing_batch", 1)>>
    /\ calls = <<batch>>
    /\ parsed = <<>>
    /\ prev_output = NoRun

ParserNext == ParseResponse

ParserSpec == ParserInit /\ [][ParserNext]_vars

(***************************************************************************)
(* Properties.                                                             *)
(***************************************************************************)
Max(S) == CHOOSE x \in S : \A y \in S : y <= x

\* equality of two dicts: same keys, same values, order set aside
SameMapping(d, e) ==
    /\ DictKeys(d) = DictKeys(e)
    /\ \A k \in DictKeys(d) : DictGet(d, k) = DictGet(e, k)

ScoreRun == command = "score"

\* the run came to its end without a failure
ScoreRunDone == ScoreRun /\ pc = "done" /\ exit_status = "exit0"

\* the batches whose dict holds a record for word w
BatchesWith(w) == {k \in 1..Len(parsed) : HasKey(parsed[k], w)}

\* every word some batch returned a record for
WordsReturned == UNION {DictKeys(parsed[k]) : k \in 1..Len(parsed)}

\* the text of the records of one batch, as line 180 writes them
BatchText(records) ==
    ConcatAll([m \in 1..Len(records) |-> FormatRecord(records[m])])

\* the text of the records of batches 1..n, in batch order
RunText(n) == ConcatAll([k \in 1..n |-> BatchText(parsed[k])])

\* how many batches have their records in the log: the loop has gone round
\* i / batch_size times, and the log of the batch at hand is closed once the
\* filtered file is being written
Persisted ==
    IF pc = "append_filtered" THEN (i \div batch_size) + 1 ELSE i \div batch_size

\* C1 (as stated): at the end of a run, a word with a record in more than
\* one batch holds the maximum of the scores returned for it.
C1_MaxWinsAcrossRun ==
    ScoreRunDone =>
        \A w \in WordsReturned :
            Cardinality(BatchesWith(w)) > 1 =>
                /\ HasKey(all_scores, w)
                /\ DictGet(all_scores, w)
                     = Max({DictGet(parsed[k], w) : k \in BatchesWith(w)})

\* C1 (amended): at the end of a run, a word with a record in more than one
\* batch holds the score of the last batch that returned a record for it.
C1_LastBatchWins ==
    ScoreRunDone =>
        \A w \in WordsReturned :
            Cardinality(BatchesWith(w)) > 1 =>
                /\ HasKey(all_scores, w)
                /\ DictGet(all_scores, w) = DictGet(parsed[Max(BatchesWith(w))], w)

\* a run has ended in which a later batch returned a lower score for a word
\* than an earlier batch
C1_Witness ==
    /\ ScoreRunDone
    /\ \E w \in WordsReturned : \E k1, k2 \in BatchesWith(w) :
          k1 < k2 /\ DictGet(parsed[k1], w) > DictGet(parsed[k2], w)

\* two batch results share a word
Overlap(b1, b2) == DictKeys(b1) \cap DictKeys(b2) /= {}

\* the first two batches have been merged into the store, which was empty
TwoBatchesMerged == ScoreRun /\ Len(parsed) = 2 /\ pc = "append_all"

\* C2 (as stated): merging two overlapping batch results into an empty store
\* gives the same store in either order.
C2_MergeCommutes ==
    (TwoBatchesMerged /\ Overlap(parsed[1], parsed[2])) =>
        SameMapping(all_scores, Merge(Merge(EmptyDict, parsed[2]), parsed[1]))

\* C2 (amended): merging two overlapping batch results into an empty store
\* gives the same store in either order exactly when the two results agree
\* on the score of every word they share; the later result wins otherwise.
C2_MergeCommutesIffAgree ==
    (TwoBatchesMerged /\ Overlap(parsed[1], parsed[2])) =>
        /\ SameMapping(all_scores, Merge(Merge(EmptyDict, parsed[2]), parsed[1]))
             <=> \A w \in DictKeys(parsed[1]) \cap DictKeys(parsed[2]) :
                     DictGet(parsed[1], w) = DictGet(parsed[2], w)
        /\ \A w \in DictKeys(parsed[2]) :
               DictGet(all_scores, w) = DictGet(parsed[2], w)

\* two overlapping batch results that disagree on a shared word are merged
C2_Witness ==
    /\ TwoBatchesMerged
    /\ \E w \in DictKeys(parsed[1]) \cap DictKeys(parsed[2]) :
          DictGet(parsed[1], w) /= DictGet(parsed[2], w)

\* the run has emptied its log and stands between the writing of two batches
\* (or before the first, or after the last)
BetweenBatches ==
    /\ ScoreRun /\ words /= <<>>
    /\ pc \in {"init_filtered", "for", "post", "parse", "update",
               "append_filtered", "summary", "done"}

\* C3: wherever a run stands (or is interrupted) between the writing of
\* batch N and that of batch N+1, the log is the records of batches 1..N in
\* batch order, nothing else, and the filter pass can open and load it.  The
\* run meant is one that has batches: it has emptied its log at line 158.
C3_Resumable ==
    BetweenBatches =>
        /\ all_file = RunText(Persisted)
        /\ ~OpenFails(all_file)

\* a run of three batches is interrupted after the first, which left records
C3_Witness ==
    /\ BetweenBatches
    /\ exit_status = "interrupted"
    /\ Len(words) > 2 * batch_size
    /\ Persisted = 1
    /\ all_file /= <<>>

\* the backend call of the batch at hand failed in transport: requests.post
\* raised (the run stands at the call) or the status is not 200
TransportFailed ==
    /\ ScoreRun /\ exit_status = "exit1"
    /\ pc = "post" \/ (pc = "parse" /\ ~StatusOk(response))

\* C4: a transport failure of the call for batch k ends the run with status
\* 1; batch k was the last one requested, nothing is appended for it, and the
\* log keeps the records of batches 1..k-1; no step follows.
C4_TransportFailureFatal ==
    /\ [](TransportFailed =>
            /\ Len(calls) = Persisted + 1
            /\ Len(parsed) = Persisted
            /\ all_file = RunText(Persisted))
    /\ [][(Running /\ pc = "parse" /\ ~StatusOk(response)
              /\ exit_status' /= "interrupted")
            => (exit_status' = "exit1" /\ pc' = pc
                  /\ UNCHANGED <<all_file, filtered_file, calls, parsed>>)]_vars
    /\ [][~TransportFailed]_vars

\* the third batch of a run failed in transport after two batches left records
C4_Witness ==
    /\ TransportFailed
    /\ Len(calls) = 3
    /\ Len(parsed[1]) > 0 /\ Len(parsed[2]) > 0

\* the reply has status 200 and is JSON, and its envelope has no content
\* text: a key is missing, or choices, a choice, message or content is null
\* or empty
EnvelopeLacksContent(r) ==
    \/ r.kind \in {"no_choices", "choices_null", "choices_empty", "choice_null",
                   "choice_no_message", "message_null", "message_no_content",
                   "content_null"}
    \/ r.kind = "content" /\ r.content = <<>>

\* C5 (as stated): a reply whose envelope lacks the content gives an empty
\* dict for the batch: the run goes on to merge it, nothing is written for
\* it, and the run is not ended.
C5_MalformedEnvelopeRecoverable ==
    [][(Running /\ ScoreRun /\ pc = "parse" /\ EnvelopeLacksContent(response)
          /\ exit_status' /= "interrupted")
        => (/\ exit_status' = "running"
            /\ pc' = "update"
            /\ batch_scores' = EmptyDict
            /\ UNCHANGED <<all_scores, all_file, filtered_file>>)]_vars

\* the k-th contiguous slice of the word list
Chunk(k) ==
    SubSeq(words, (k - 1) * batch_size + 1,
           IF k * batch_size < Len(words) THEN k * batch_size ELSE Len(words))

\* ceil(a / b)
CeilDiv(a, b) == (a + b - 1) \div b

\* C6: the k-th backend call gets the k-th contiguous slice of the word list,
\* of 1..batch_size words; a run without failure makes ceil(L / batch_size)
\* calls, which together cover every position once, in order.
C6_BatchPartition ==
    ScoreRun =>
        /\ \A k \in 1..Len(calls) :
              /\ calls[k] = Chunk(k)
              /\ Len(calls[k]) \in 1..batch_size
        /\ Len(calls) <= CeilDiv(Len(words), batch_size)
        /\ (ScoreRunDone /\ words /= <<>>) =>
              /\ Len(calls) = CeilDiv(Len(words), batch_size)
              /\ ConcatAll(calls) = words

\* a run has ended whose last batch is shorter than the others
C6_Witness ==
    /\ ScoreRunDone
    /\ batch_size > 1
    /\ Len(words) % batch_size /= 0
    /\ Len(calls) > 1

\* s is the beginning of t
IsPrefix(s, t) == Len(s) <= Len(t) /\ SubSeq(t, 1, Len(s)) = s

\* the log holds records of this run only
OnlyThisRun == IsPrefix(all_file, RunText(Len(parsed)))

\* C7 (as stated): once a scoring run has started, whatever its word list,
\* the log holds records of this run only.
C7_FreshLog ==
    (ScoreRun /\ pc \notin {"main", "start"} /\ all_file /= NoFile) => OnlyThisRun

\* C7 (amended): once a scoring run with a word list that is not empty has
\* started, the log holds records of this run only; a run with an empty word
\* list returns before it opens the log and leaves it as it was.
C7_FreshLogUnlessEmpty ==
    /\ []((ScoreRun /\ pc \notin {"main", "start"} /\ words /= <<>>) => OnlyThisRun)
    /\ [][(ScoreRun /\ words = <<>>) => UNCHANGED <<all_file, filtered_file>>]_vars

\* a run has emptied the log of an earlier run, whose filtered file is still
\* there
C7_Witness ==
    /\ ScoreRun /\ pc = "init_filtered"
    /\ filtered_file = OldFiltered
    /\ all_file = <<>>

\* C8: a scoring run with an empty word list makes no backend call and
\* returns an empty store.
C8_EmptyInput ==
    (ScoreRun /\ words = <<>>) =>
        /\ calls = <<>>
        /\ response = NoResponse
        /\ pc \in {"main", "start", "summary", "done"}
        /\ all_scores = EmptyDict

\* a run with an empty word list has returned
C8_Witness == ScoreRunDone /\ words = <<>>

\* the filter pass has read its log
FilterLoaded == command = "filter" /\ pc \in {"filter_write", "done"}

Blank(raw) == Strip(raw) = <<>>

\* a line that holds a record: text, a ':', and an integer after the first ':'
WellFormed(raw) ==
    /\ Contains(raw, ":")
    /\ ParseInt(SplitFirst(raw, ":")[2]).ok

\* a line that is not blank and holds no record
Malformed(raw) == ~Blank(raw) /\ ~WellFormed(raw)

LineWord(raw) == Strip(SplitFirst(raw, ":")[1])

LineScore(raw) == ParseInt(SplitFirst(raw, ":")[2]).value

\* the numbers of the well-formed lines among lines
WellFormedLines(lines) == {k \in 1..Len(lines) : WellFormed(lines[k])}

\* the numbers of the well-formed lines that name word w
LinesFor(lines, w) == {k \in WellFormedLines(lines) : LineWord(lines[k]) = w}

\* the words the well-formed lines name
WordsLogged(lines) == {LineWord(lines[k]) : k \in WellFormedLines(lines)}

\* C9 (as stated): the score the filter pass holds for a word on several
\* well-formed lines is the maximum over those lines.
C9_LoadMaxWins ==
    FilterLoaded =>
        LET lines == FileLines(all_file)
        IN  \A w \in WordsLogged(lines) :
                LET at == LinesFor(lines, w)
                IN  Cardinality(at) > 1 =>
                        /\ HasKey(all_scores, w)
                        /\ DictGet(all_scores, w)
                             = Max({LineScore(lines[k]) : k \in at})

\* C9 (amended): the score the filter pass holds for a word on several
\* well-formed lines is that of the last of those lines.
C9_LoadLastWins ==
    FilterLoaded =>
        LET lines == FileLines(all_file)
        IN  \A w \in WordsLogged(lines) :
                LET at == LinesFor(lines, w)
                IN  Cardinality(at) > 1 =>
                        /\ HasKey(all_scores, w)
                        /\ DictGet(all_scores, w) = LineScore(lines[Max(at)])

\* the filter pass has read a log in which a later line gives a word a lower
\* score than an earlier line
C9_Witness ==
    /\ FilterLoaded
    /\ LET lines == FileLines(all_file)
       IN  \E w \in WordsLogged(lines) : \E k1, k2 \in LinesFor(lines, w) :
              k1 < k2 /\ LineScore(lines[k1]) > LineScore(lines[k2])

\* the messages of the filter pass that are no warning
FilterMessages ==
    {"reading_scored_words", "read_scored_words", "filtered_words",
     "filtered_words_saved", "error_filtering_words"}

\* the warnings on the console
Warnings == {k \in 1..Len(console) : console[k].msg \notin FilterMessages}

\* the numbers of the malformed lines among lines
MalformedLines(lines) == {k \in 1..Len(lines) : Malformed(lines[k])}

\* C10 (as stated): the filter pass goes on past every malformed line, takes
\* no record from it, and prints one warning for it.
C10_MalformedLinesCounted ==
    FilterLoaded =>
        LET lines == FileLines(all_file)
        IN  /\ exit_status /= "exit1"
            /\ DictKeys(all_scores) = WordsLogged(lines)
            /\ Cardinality(Warnings) = Cardinality(MalformedLines(lines))

\* C10 (amended): the filter pass goes on past every malformed line and takes
\* no record from it, and prints no warning and keeps no count of the lines
\* it skipped: after "Reading scored words" it prints only the number of
\* words it read.
C10_MalformedLinesSkippedSilently ==
    FilterLoaded =>
        LET logged == WordsLogged(FileLines(all_file))
        IN  /\ exit_status /= "exit1"
            /\ DictKeys(all_scores) = logged
            /\ Warnings = {}
            /\ console[1] = Msg("reading_scored_words", 0)
            /\ console[2] = Msg("read_scored_words", Cardinality(logged))

\* the filter pass has read the log foo:80, bad line, bar:notanumber, foo:95
C10_Witness ==
    /\ FilterLoaded
    /\ all_file = ExampleLog
    /\ Cardinality(MalformedLines(FileLines(all_file))) = 2

\* C11: the dict parsed from a reply text has a record for a line exactly
\* when the line contains ':' and the text after the first ':' , trimmed, is
\* an integer; the word is the trimmed text before the first ':', its score
\* that of the last such line naming it; every other line leaves no trace,
\* and the run goes on.
C11_LineAcceptance ==
    [][(Running /\ pc = "parse" /\ response.kind = "content"
          /\ exit_status' /= "interrupted")
        => LET lines  == Split(response.content, "\n")
               logged == WordsLogged(lines)
           IN  /\ exit_status' = "running"
               /\ pc' = "update"
               /\ DictKeys(batch_scores') = logged
               /\ Len(batch_scores') = Cardinality(logged)
               /\ \A w \in logged :
                      DictGet(batch_scores', w)
                        = LineScore(lines[Max(LinesFor(lines, w))])]_vars

\* the parser has made the one record a -> -1 from a reply text
C11_Witness ==
    /\ ScoreRun /\ pc = "update"
    /\ batch_scores = <<[key |-> <<"a">>, value |-> 0 - 1]>>

\* the filter pass has written its output
FilterDone == command = "filter" /\ pc = "done" /\ exit_status = "exit0"

\* the Turkish alphabet: each letter with a diacritic directly after its base
\* letter, dotless i before i
TurkishAlphabet ==
    <<"a", "b", "c", c_cedilla, "d", "e", "f", "g", g_breve, "h", dotless_i, "i",
      "j", "k", "l", "m", "n", "o", o_diaeresis, "p", "r", "s", s_cedilla, "t",
      "u", u_diaeresis, "v", "y", "z">>

\* the place of a letter in the Turkish alphabet; any other character comes
\* after the letters, in code point order
TurkishOrd(c) ==
    IF \E k \in 1..Len(TurkishAlphabet) : TurkishAlphabet[k] = c
    THEN CHOOSE k \in 1..Len(TurkishAlphabet) : TurkishAlphabet[k] = c
    ELSE Len(TurkishAlphabet) + Ord(c)

\* a before b in Turkish collation
RECURSIVE TurkishLess(_, _)
TurkishLess(a, b) ==
    IF b = <<>> THEN FALSE
    ELSE IF a = <<>> THEN TRUE
    ELSE IF Head(a) = Head(b) THEN TurkishLess(Tail(a), Tail(b))
    ELSE TurkishOrd(Head(a)) < TurkishOrd(Head(b))

\* the four words of the collation example are the accepted set
TurkishExample ==
    /\ FilterDone
    /\ DictKeys(FilterDict(all_scores, min_score))
         = {cay, cay_cedilla, isik_dotless, isim}

\* C12 (as stated): the filter pass writes its words in the order of the
\* Turkish alphabet; the accepted set of the example comes out as cay,
\* c-cedilla ay, dotless-i s-cedilla dotless-i k, isim.
C12_TurkishCollation ==
    /\ FilterDone =>
          LET out == FileLines(filtered_file)
          IN  \A k \in 1..(Len(out) - 1) : TurkishLess(out[k], out[k + 1])
    /\ TurkishExample =>
          filtered_file = FileOf(<<cay, cay_cedilla, isik_dotless, isim>>)

\* C12 (amended): the filter pass writes its words in ascending code point
\* order, so every word that begins with a letter outside ASCII comes after
\* every word that begins with an ASCII letter; the accepted set of the
\* example comes out as cay, isim, c-cedilla ay, dotless-i s-cedilla
\* dotless-i k.
C12_CodePointOrder ==
    /\ FilterDone =>
          LET out == FileLines(filtered_file)
          IN  \A k \in 1..(Len(out) - 1) : StrLess(out[k], out[k + 1])
    /\ TurkishExample =>
          filtered_file = FileOf(<<cay, isim, cay_cedilla, isik_dotless>>)

\* the filter pass has written the four words of the example, read from a
\* log that does not hold them in code point order
C12_Witness ==
    /\ TurkishExample
    /\ FileLines(all_file)[1] = TurkishLines[4]

\* C13: the output of the filter pass holds a word exactly when the score the
\* pass holds for it is >= min_score: a word scored min_score is in it, a
\* word scored min_score - 1 is not, and no word is in it twice.
C13_InclusiveThreshold ==
    FilterDone =>
        LET out == FileLines(filtered_file)
        IN  /\ {out[k] : k \in 1..Len(out)}
                 = {w \in DictKeys(all_scores) : DictGet(all_scores, w) >= min_score}
            /\ \A w \in DictKeys(all_scores) :
                   /\ DictGet(all_scores, w) = min_score
                        => \E k \in 1..Len(out) : out[k] = w
                   /\ DictGet(all_scores, w) = min_score - 1
                        => \A k \in 1..Len(out) : out[k] /= w
            /\ \A k1, k2 \in 1..Len(out) : k1 /= k2 => out[k1] /= out[k2]

\* the filter pass has written its output from a store in which one word is
\* scored min_score and another min_score - 1
C13_Witness ==
    /\ FilterDone
    /\ \E w1, w2 \in DictKeys(all_scores) :
          /\ DictGet(all_scores, w1) = min_score
          /\ DictGet(all_scores, w2) = min_score - 1
    /\ filtered_file /= <<>>

\* the score command lacks the API key, the word file or the prompt file
ConfigError == ScoreRun /\ config /= Needed

\* C14: a score command that lacks the API key, the word file or the prompt
\* file ends in main with status 1, makes no backend call, and no step of it
\* changes (empties or creates) the log or the filtered file; a filter pass
\* whose log is missing ends with status 1 and no step of it creates or
\* changes its output file; nothing follows an exit with status 1.
C14_ConfigErrorsNoSideEffects ==
    /\ [](ConfigError => (calls = <<>> /\ pc = "main"))
    /\ [][ConfigError => UNCHANGED <<all_file, filtered_file>>]_vars
    /\ [][(ConfigError /\ Running /\ exit_status' /= "interrupted")
            => exit_status' = "exit1"]_vars
    /\ [][(command = "filter" /\ OpenFails(all_file))
            => (exit_status' = "exit1" /\ UNCHANGED <<all_file, filtered_file>>)]_vars
    /\ [][exit_status /= "exit1"]_vars

\* a score command without its prompt file has ended with status 1, and the
\* files of an earlier run are there
C14_Witness ==
    /\ ConfigError /\ exit_status = "exit1"
    /\ config = {"api_key", "input_file"}
    /\ all_file = OldLog /\ filtered_file = OldFiltered

\* C15: a second filter pass with the same min_score on the same log writes
\* the text the first pass wrote, and no step of a filter pass changes the
\* log (the output path is another file).
C15_FilterIdempotent ==
    /\ []((FilterDone /\ prev_output /= NoRun) => filtered_file = prev_output)
    /\ [][command = "filter" => all_file' = all_file]_vars

\* a second filter pass has written an output of two words or more
C15_Witness ==
    /\ FilterDone /\ prev_output /= NoRun
    /\ Len(FileLines(filtered_file)) >= 2

\* the batch at hand has been merged into the store (line 175 is done)
BatchMerged == ScoreRun /\ pc \in {"append_all", "append_filtered"}

\* no key is in the dict twice
KeysDistinct(d) == \A a, b \in 1..Len(d) : a /= b => d[a].key /= d[b].key

\* C16 (as stated): once a batch has been merged, every word of that batch
\* (of the slice of the word list sent to the backend) is a key of the store,
\* with one score.
C16_BatchCovered ==
    BatchMerged =>
        /\ \A k \in 1..Len(batch) : HasKey(all_scores, batch[k])
        /\ KeysDistinct(all_scores)

\* C16 (amended): once a batch has been merged, every word for which the
\* reply had a well-formed line is a key of the store, with one score, that
\* of the reply; a word of the slice is a key of the store only if this reply
\* or an earlier one had a well-formed line for it.
C16_ReturnedCovered ==
    BatchMerged =>
        /\ \A m \in 1..Len(batch_scores) :
               /\ HasKey(all_scores, batch_scores[m].key)
               /\ DictGet(all_scores, batch_scores[m].key) = batch_scores[m].value
        /\ KeysDistinct(all_scores)
        /\ DictKeys(all_scores) = WordsReturned
        /\ \A k \in 1..Len(batch) :
               HasKey(all_scores, batch[k]) <=> batch[k] \in WordsReturned

\* a batch has been merged whose reply had a record for a word already in
\* the store and none for a word of the batch
C16_Witness ==
    /\ BatchMerged
    /\ Len(parsed) > 1
    /\ \E m \in 1..Len(batch_scores) : HasKey(parsed[1], batch_scores[m].key)
    /\ \E k \in 1..Len(batch) : ~HasKey(all_scores, batch[k])

\* the run stands (or was interrupted) inside the write loop of the log
Persisting == ScoreRun /\ pc = "append_all"

\* the run has emptied its log
LogEmptied == ScoreRun /\ words /= <<>> /\ pc \notin {"main", "start"}

\* C17 (as stated): in every state of a run that has emptied its log, a
\* state after an interruption inside the write loop included, the log is
\* the records of a whole number of batches.
C17_WholeBatches ==
    LogEmptied => \E n \in 0..Len(parsed) : all_file = RunText(n)

\* C17 (amended): outside the write loop of the log, the log is the records
\* of the batches persisted so far, all of them whole; inside the loop it is
\* these and, only after an interruption that let the written text reach the
\* disk, the records of the batch at hand written so far, which may be part
\* of that batch.
C17_WholeBatchesUnlessCut ==
    LogEmptied =>
        LET whole == RunText(Persisted)
        IN  \/ all_file = whole
            \/ /\ Persisting /\ exit_status = "interrupted"
               /\ \E m \in 1..j :
                      all_file = whole \o BatchText(SubSeq(batch_scores, 1, m))

\* a run was interrupted after the first of the two records of its second
\* batch was written, and that record is in the log without the other
C17_Witness ==
    /\ Persisting /\ exit_status = "interrupted"
    /\ Persisted = 1 /\ Len(batch_scores) = 2 /\ j = 1
    /\ all_file = RunText(1) \o FormatRecord(batch_scores[1])

\* C18: no step of a scoring run takes a key out of the store or makes it
\* smaller, and a backend call is made only when every batch returned so far
\* has been merged and its records are in the log.
C18_MonotoneAndFlushed ==
    /\ [][ScoreRun => /\ DictKeys(all_scores) \subseteq DictKeys(all_scores')
                      /\ Len(all_scores) <= Len(all_scores')]_vars
    /\ [][(ScoreRun /\ Len(calls') > Len(calls))
            => /\ Len(parsed) = Len(calls)
               /\ all_file = RunText(Len(parsed))
               /\ WordsReturned = DictKeys(all_scores)]_vars

\* the third batch is requested after two batches that both left records,
\* the second for a word the first had too
C18_Witness ==
    /\ ScoreRun /\ pc = "parse" /\ Len(calls) = 3
    /\ parsed[1] /= <<>> /\ parsed[2] /= <<>>
    /\ Overlap(parsed[1], parsed[2])

\* no key of the dict holds a ':' or a line break
KeysPlain(d) ==
    \A k \in DictKeys(d) : ~Contains(k, ":") /\ ~Contains(k, "\n") /\ ~Contains(k, "\r")

\* the run is at a batch boundary (line 167) or past its end
AtBoundary == ScoreRun /\ pc \in {"for", "summary", "done"}

\* C19 (as stated): at a batch boundary or the end of any scoring run whose
\* log is there, the filter loader reads from the log the store of the run.
C19_LogMatchesStore ==
    (AtBoundary /\ KeysPlain(all_scores) /\ ~OpenFails(all_file)) =>
        SameMapping(LoadLog(all_file).scores, all_scores)

\* C19 (amended): at a batch boundary or the end of a scoring run whose word
\* list is not empty, the log is there and the filter loader reads from it
\* the store of the run; a run with an empty word list ends with an empty
\* store and the log as it found it.
C19_LogMatchesStoreOfBatches ==
    /\ (AtBoundary /\ words /= <<>> /\ KeysPlain(all_scores)) =>
          /\ ~OpenFails(all_file)
          /\ SameMapping(LoadLog(all_file).scores, all_scores)
    /\ (AtBoundary /\ words = <<>>) =>
          /\ all_scores = EmptyDict
          /\ \E old \in OldFiles : all_file = old[1]

\* a run has ended whose log holds two lines for one word and a line for
\* another
C19_Witness ==
    /\ ScoreRunDone
    /\ Len(all_scores) >= 2
    /\ Len(FileLines(all_file)) > Len(all_scores)

\* the records batches 1..n returned, in the order the run wrote them to the
\* log
Records(n) == ConcatAll([k \in 1..n |-> parsed[k]])

\* the words of those of the records whose score is >= min_score, one a line
QualifyingText(records) ==
    ConcatAll([m \in 1..Len(records) |->
                  IF records[m].value >= min_score
                  THEN FormatWord(records[m].key) ELSE <<>>])

\* the batches whose words are in the filtered file too
Filtered == i \div batch_size

\* C20 (as stated): in every state of a run that has emptied its log, the
\* filtered file is the qualifying words of the log records of batches 1..M,
\* M being the number of batches persisted or one less.
C20_FilteredTracksLog ==
    (LogEmptied /\ ~OpenFails(filtered_file)) =>
        \E M \in {Persisted, Persisted - 1} \cap (0..Len(parsed)) :
            /\ IsPrefix(RunText(M), all_file)
            /\ filtered_file = QualifyingText(Records(M))

\* C20 (amended): in every state of a run that has emptied both files, the
\* log holds the records of the batches persisted, and the filtered file is
\* the qualifying words of the log records of batches 1..M, M being the
\* number of batches persisted or one less, followed, only after an
\* interruption inside the write loop of the filtered file, by the
\* qualifying words of the records of batch M+1 written so far.
C20_FilteredTracksLogUnlessCut ==
    (LogEmptied /\ pc /= "init_filtered") =>
        /\ Filtered \in {Persisted, Persisted - 1}
        /\ IsPrefix(RunText(Persisted), all_file)
        /\ \/ filtered_file = QualifyingText(Records(Filtered))
           \/ /\ pc = "append_filtered" /\ exit_status = "interrupted"
              /\ \E m \in 1..j :
                     filtered_file
                       = QualifyingText(Records(Filtered) \o SubSeq(batch_scores, 1, m))

\* a run was interrupted after the first of two qualifying words of its
\* second batch was written, and that word is in the filtered file without
\* the other
C20_Witness ==
    /\ ScoreRun /\ pc = "append_filtered" /\ exit_status = "interrupted"
    /\ Filtered = 1 /\ j = 1 /\ Len(batch_scores) = 2
    /\ batch_scores[1].value >= min_score /\ batch_scores[2].value >= min_score
    /\ filtered_file = QualifyingText(parsed[1]) \o FormatWord(batch_scores[1].key)

====
